---------------------------- MODULE Spec2Model ----------------------------
(***************************************************************************)
(* Bracket construction and match advancement of the tournament engine     *)
(* (app/services/bracket_service.py), with the tournament status sink      *)
(* (app/services/tournament_service.py) and the match/bracket data model   *)
(* (app/models/bracket_model.py).                                          *)
(*                                                                         *)
(* _generate_single_elimination_matches holds several draft passes (lines   *)
(* 110-335) before the "Full Single Elimination Logic" pass (lines         *)
(* 343-455).  The drafts only fill local lists that the final pass never   *)
(* reads and that are not returned, so the bracket returned is the one     *)
(* built by the final pass; that pass is what                              *)
(* GenerateSingleEliminationMatches models.  One draft, at line 223, calls  *)
(* uuid4, a name bracket_service.py does not import; the specifications    *)
(* take the final pass to be reached, except SpecAsWritten, which takes    *)
(* the function line by line as the file has it.  Line 88 reads            *)
(* tournament_config.tournament_type.value although TournamentConfig sets  *)
(* use_enum_values; the model takes the bracket to be built with the       *)
(* type's value, as the line intends.                                      *)
(*                                                                         *)
(* Player ids and match ids are strings (uuids) in the program.  Here      *)
(* players are 1..n, match ids are the numbers issued by a uuid counter,   *)
(* and an advancer carries a tag telling which of the two namespaces its   *)
(* reference belongs to (in the program the two never collide).            *)
(***************************************************************************)
EXTENDS Integers, Sequences, FiniteSets, TLC

\* ------------------------------------------------------------------ bounds
\* roster sizes of the runs that record results, and of the runs that only build
MaxPlayers == 4
MaxBuildPlayers == 7
MaxScore == 1
MaxSinkCalls == 3
\* record_match_result calls each concurrent caller makes
MaxCallsPerCaller == 1
\* status updates by the admin are taken while fewer match ids were issued
MaxIssuedIds == 4
\* roster sizes of the runs checked for progress under fair recording
MaxFairPlayers == 3
\* roster size of each tournament when two tournaments share the brackets file
MaxPlayersOfTwo == 2

\* --------------------------------------------------------------- constants
\* Python's None for the Optional[...] fields of MatchModel
None == 0 - 1

TournamentIds == {1}
\* a tournament id that no stored tournament has
UnknownTournamentId == 2
\* the ids when two tournaments share the brackets file
TwoTournamentIds == {1, 3}
Users == {"admin", "other"}
Scores == 0..MaxScore

\* outcomes of one TournamentService.update_tournament_status invocation:
\* it returns, raises ValueError, or raises something else (the file write)
SinkOutcomes == {"ok", "ValueError", "OtherError"}

\* the request handlers that may be inside record_match_result at once
Callers == {1, 2}

VARIABLES
    tournaments,   \* tournaments.json: tournament id -> TournamentConfig
    brackets,      \* brackets.json: list of BracketModel dumps
    uuids,         \* number of match uuids issued so far
    sinkCalls,     \* log of the bracket service's update_tournament_status calls
    lastCall,      \* the last service call and what it gave its caller
    inflight       \* per caller: where its record_match_result call stands

vars == <<tournaments, brackets, uuids, sinkCalls, lastCall, inflight>>

\* ------------------------------------------------------------- data model
MatchStatus == {"PENDING", "PLAYER1_WIN", "PLAYER2_WIN", "DRAW", "COMPLETED", "BYE"}

allowed_statuses == {"PENDING", "REGISTRATION_OPEN", "ACTIVE", "COMPLETED", "CANCELLED"}

TournamentType == {"SINGLE_ELIMINATION", "ROUND_ROBIN"}

MatchModel(id, tournament_id, round_number, match_in_round, player1_id, player2_id, status, winner_id) ==
    [id |-> id,
     tournament_id |-> tournament_id,
     round_number |-> round_number,
     match_in_round |-> match_in_round,
     player1_id |-> player1_id,
     player2_id |-> player2_id,
     winner_id |-> winner_id,
     score_player1 |-> None,
     score_player2 |-> None,
     status |-> status,
     next_match_id |-> None,
     winner_to_player_slot |-> None]

BracketModel(tournament_id, tournament_type, matches, rounds_structure) ==
    [tournament_id |-> tournament_id,
     tournament_type |-> tournament_type,
     matches |-> matches,
     rounds_structure |-> rounds_structure]

\* ---------------------------------------------------------- bracket build
RECURSIVE BracketSizeFrom(_, _)
BracketSizeFrom(bracket_size, num_players) ==
    IF bracket_size < num_players
    THEN BracketSizeFrom(bracket_size * 2, num_players)
    ELSE bracket_size

\* fault: the loop test written `<=`, so an exact power of two is doubled
RECURSIVE BracketSizeFromLeq(_, _)
BracketSizeFromLeq(bracket_size, num_players) ==
    IF bracket_size <= num_players
    THEN BracketSizeFromLeq(bracket_size * 2, num_players)
    ELSE bracket_size

BracketSizeLeq(num_players) == BracketSizeFromLeq(1, num_players)

\* bracket_size = 1; while bracket_size < num_players: bracket_size *= 2
BracketSize(num_players) == BracketSizeFrom(1, num_players)

\* random.shuffle(player_ids): any reordering of the list
Shuffles(player_ids) ==
    { [i \in 1..Len(player_ids) |-> player_ids[perm[i]]] :
          perm \in Permutations(1..Len(player_ids)) }

PlayerAdvancer(player_id) == [kind |-> "player", ref |-> player_id]
MatchAdvancer(match_id) == [kind |-> "match", ref |-> match_id]

\* fault: range(num_byes - 1), one bye too few
Round1ByeMatchesOneLess(player_ids, tournament_id, num_byes, idBase) ==
    [i \in 1..(num_byes - 1) |->
        MatchModel(idBase + i, tournament_id, 1, i,
                   player_ids[i], None, "BYE", player_ids[i])]

\* fault: the BYE match created without its winner
Round1ByeMatchesNoWinner(player_ids, tournament_id, num_byes, idBase) ==
    [i \in 1..num_byes |->
        MatchModel(idBase + i, tournament_id, 1, i,
                   player_ids[i], None, "BYE", None)]

\* for i in range(num_byes): one BYE match per player, ids in creation order
Round1ByeMatches(player_ids, tournament_id, num_byes, idBase) ==
    [i \in 1..num_byes |->
        MatchModel(idBase + i, tournament_id, 1, i,
                   player_ids[i], None, "BYE", player_ids[i])]

\* fault: p2_id read at index i instead of i+1
Round1PlayedMatchesSamePlayer(player_ids, tournament_id, num_byes, idBase) ==
    [k \in 1..((Len(player_ids) - num_byes) \div 2) |->
        MatchModel(idBase + num_byes + k, tournament_id, 1, num_byes + k,
                   player_ids[num_byes + 2 * k - 1],
                   player_ids[num_byes + 2 * k - 1], "PENDING", None)]

\* for i in range(0, len(players_for_round1_matches), 2): the players after
\* the byes, paired in order (their count 2n - bracket_size is even)
Round1PlayedMatches(player_ids, tournament_id, num_byes, idBase) ==
    [k \in 1..((Len(player_ids) - num_byes) \div 2) |->
        MatchModel(idBase + num_byes + k, tournament_id, 1, num_byes + k,
                   player_ids[num_byes + 2 * k - 1],
                   player_ids[num_byes + 2 * k], "PENDING", None)]

\* `source in previous_round_match_objects`
IsPreviousRoundMatch(source, previous_round_ids) ==
    source.kind = "match" /\ source.ref \in previous_round_ids

\* fault: the else branches dropped, a bye player is not put into its slot
NewRoundMatchEmptySlots(id, tournament_id, round_num, match_in_round_idx, source1, source2, previous_round_ids) ==
    MatchModel(id, tournament_id, round_num, match_in_round_idx, None, None, "PENDING", None)

\* the new match of one pairing: a slot is pre-filled exactly when its source
\* is not a match of the previous round (a bye player)
NewRoundMatch(id, tournament_id, round_num, match_in_round_idx, source1, source2, previous_round_ids) ==
    MatchModel(id, tournament_id, round_num, match_in_round_idx,
               IF IsPreviousRoundMatch(source1, previous_round_ids) THEN None ELSE source1.ref,
               IF IsPreviousRoundMatch(source2, previous_round_ids) THEN None ELSE source2.ref,
               "PENDING", None)

\* fault: winner_to_player_slot = 1 written for both sources of a pairing
LinkPreviousRoundSlotOne(all_matches_list, current_round_advancers, previous_round_ids, firstNewId) ==
    [x \in 1..Len(all_matches_list) |->
        LET m == all_matches_list[x]
            qs == { q \in 1..Len(current_round_advancers) :
                      /\ IsPreviousRoundMatch(current_round_advancers[q], previous_round_ids)
                      /\ current_round_advancers[q].ref = m.id }
        IN IF qs = {} THEN m
           ELSE LET q == CHOOSE q \in qs : \A q2 \in qs : q2 <= q
                IN [m EXCEPT !.next_match_id = firstNewId + ((q + 1) \div 2) - 1,
                             !.winner_to_player_slot = 1]]

\* prev_match.next_match_id / winner_to_player_slot for the matches of the
\* previous round that are sources of a pairing; other matches untouched
LinkPreviousRound(all_matches_list, current_round_advancers, previous_round_ids, firstNewId) ==
    [x \in 1..Len(all_matches_list) |->
        LET m == all_matches_list[x]
            qs == { q \in 1..Len(current_round_advancers) :
                      /\ IsPreviousRoundMatch(current_round_advancers[q], previous_round_ids)
                      /\ current_round_advancers[q].ref = m.id }
        IN IF qs = {} THEN m
           ELSE LET q == CHOOSE q \in qs : \A q2 \in qs : q2 <= q
                IN [m EXCEPT !.next_match_id = firstNewId + ((q + 1) \div 2) - 1,
                             !.winner_to_player_slot = IF q % 2 = 1 THEN 1 ELSE 2]]

\* fault: the ids of a round entered into rounds_structure last match first
RoundIdsReversed(round_matches) ==
    [j \in 1..Len(round_matches) |-> round_matches[Len(round_matches) + 1 - j].id]

\* rounds_structure_dict[round_num].append(match.id) for each match of a
\* round as it is created
RoundIds(round_matches) == [j \in 1..Len(round_matches) |-> round_matches[j].id]

\* while len(current_round_advancers) > 1: build the next round
RECURSIVE SubsequentRounds(_, _, _, _, _, _, _)
SubsequentRounds(all_matches_list, rounds_structure_dict, current_round_advancers, previous_round_ids, round_num, tournament_id, idBase) ==
    IF Len(current_round_advancers) > 1
    THEN LET r == round_num + 1
             firstNewId == idBase + Len(all_matches_list) + 1
             pairs == Len(current_round_advancers) \div 2
             new_matches ==
                 [j \in 1..pairs |->
                     NewRoundMatch(firstNewId + j - 1, tournament_id, r, j,
                                   current_round_advancers[2 * j - 1],
                                   current_round_advancers[2 * j],
                                   previous_round_ids)]
             linked == LinkPreviousRound(all_matches_list, current_round_advancers,
                                         previous_round_ids, firstNewId)
             new_ids == [j \in 1..pairs |-> new_matches[j].id]
         IN SubsequentRounds(linked \o new_matches,
                             Append(rounds_structure_dict, RoundIds(new_matches)),
                             [j \in 1..pairs |-> MatchAdvancer(new_ids[j])],
                             { new_ids[j] : j \in 1..pairs },
                             r, tournament_id, idBase)
    ELSE [matches |-> all_matches_list, rounds_structure |-> rounds_structure_dict]

\* the final pass of _generate_single_elimination_matches, after the shuffle;
\* rounds_structure is the list indexed by round number 1..R
GenerateSingleEliminationMatches(player_ids, tournament_id, idBase) ==
    LET num_players == Len(player_ids)
        bracket_size == BracketSize(num_players)
        num_byes == bracket_size - num_players
        byes == Round1ByeMatches(player_ids, tournament_id, num_byes, idBase)
        played == Round1PlayedMatches(player_ids, tournament_id, num_byes, idBase)
        round1 == byes \o played
        advancers == [i \in 1..Len(round1) |->
                         IF round1[i].status = "BYE"
                         THEN PlayerAdvancer(round1[i].player1_id)
                         ELSE MatchAdvancer(round1[i].id)]
    IN SubsequentRounds(round1,
                        << RoundIds(round1) >>,
                        advancers,
                        { round1[i].id : i \in 1..Len(round1) },
                        1, tournament_id, idBase)

\* ------------------------------------------------------ tournament service
\* TournamentService.get_tournament_by_id: the config, or nothing
HasTournament(ts, tournament_id) == tournament_id \in DOMAIN ts

\* TournamentService.update_tournament_status on a valid status: the stored
\* tournament gets the status; an unknown id changes nothing (returns None)
UpdateTournamentStatus(ts, tournament_id, status) ==
    IF tournament_id \in DOMAIN ts
    THEN [ts EXCEPT ![tournament_id].status = status]
    ELSE ts

\* fault: the status is stored although the call raises
SinkEffectDespiteFailure(ts, tournament_id, status, outcome) ==
    UpdateTournamentStatus(ts, tournament_id, status)

\* the sink as the engine's collaborator: it takes effect only when it returns
SinkEffect(ts, tournament_id, status, outcome) ==
    IF outcome = "ok" THEN UpdateTournamentStatus(ts, tournament_id, status) ELSE ts

SinkCall(tournament_id, status, outcome) ==
    [tournament_id |-> tournament_id, status |-> status, outcome |-> outcome]

\* --------------------------------------------------------- bracket service
\* position of the first bracket of the tournament in the file, 0 if none
IndexOfBracket(brackets_list, tournament_id) ==
    LET is == { i \in 1..Len(brackets_list) : brackets_list[i].tournament_id = tournament_id }
    IN IF is = {} THEN 0 ELSE CHOOSE i \in is : \A i2 \in is : i <= i2

\* fault: an id that no match has falls back to the first match
IndexOfMatchOrFirst(matches, match_id) ==
    LET js == { j \in 1..Len(matches) : matches[j].id = match_id }
    IN IF js = {} THEN (IF matches = << >> THEN 0 ELSE 1)
       ELSE CHOOSE j \in js : \A j2 \in js : j <= j2

\* position of the first match with the id in the bracket's list, 0 if none
IndexOfMatch(matches, match_id) ==
    LET js == { j \in 1..Len(matches) : matches[j].id = match_id }
    IN IF js = {} THEN 0 ELSE CHOOSE j \in js : \A j2 \in js : j <= j2

\* fault: the lookup never finds the stored bracket
GetBracketByTournamentIdNotFound(brackets_list, tournament_id) == << >>

\* get_bracket_by_tournament_id: <<bracket>> or <<>> for None.  The file
\* holds model_dump() of the bracket as JSON and BracketModel(**dict) reads it
\* back: ids and status values are strings, round numbers, positions, scores
\* and slots are ints, None is null, so every field of a match comes back as
\* it was dumped (the int keys of rounds_structure come back from their
\* decimal strings)
GetBracketByTournamentId(brackets_list, tournament_id) ==
    LET i == IndexOfBracket(brackets_list, tournament_id)
    IN IF i = 0 THEN << >> ELSE << brackets_list[i] >>

\* fault: the filter dropped, the old bracket of the tournament is kept
WithoutTournamentKeepAll(brackets_list, tournament_id) == brackets_list

\* [b for b in brackets_data if b.get("tournament_id") != tournament_id]
RECURSIVE WithoutTournament(_, _)
WithoutTournament(brackets_list, tournament_id) ==
    IF brackets_list = << >> THEN << >>
    ELSE IF Head(brackets_list).tournament_id = tournament_id
         THEN WithoutTournament(Tail(brackets_list), tournament_id)
         ELSE << Head(brackets_list) >> \o WithoutTournament(Tail(brackets_list), tournament_id)

\* what a call gave its caller: the exception raised ("None" if it returned)
\* with the case of its message, the sink outcome met, and the value returned
\* (<< >> for nothing); match_id is the match the call located, None if the
\* call ended before it located one
Call(op, tournament_id, match_id, exc, msg, sink, returned) ==
    [op |-> op, tournament_id |-> tournament_id, match_id |-> match_id,
     exc |-> exc, msg |-> msg, sink |-> sink, returned |-> returned]

Outcome(ts, bl, ids, calls, call) ==
    [tournaments |-> ts, brackets |-> bl, uuids |-> ids, sinkCalls |-> calls, call |-> call]

\* fault: the test written `< 1`, a single player passes
TooFewPlayersBelowOne(num_players) == num_players < 1

\* num_players < 2, the first test of _generate_single_elimination_matches
TooFewPlayers(num_players) == num_players < 2

\* create_bracket_for_tournament with the shuffle's result and the sink's
\* outcome given; an exception leaves what was written before it
CreateBracketForTournament(ts, bl, ids, calls, tournament_id, shuffled, sinkOutcome) ==
    LET Raise(exc, msg) ==
            Outcome(ts, bl, ids, calls, Call("create", tournament_id, None, exc, msg, "not_called", << >>))
    IN IF ~HasTournament(ts, tournament_id)
       THEN Raise("ValueError", "tournament_not_found")
       ELSE LET tournament_config == ts[tournament_id]
                existing_bracket == GetBracketByTournamentId(bl, tournament_id)
            IN IF tournament_config.status \in {"ACTIVE", "COMPLETED"} /\ existing_bracket # << >>
               THEN Outcome(ts, bl, ids, calls,
                            Call("create", tournament_id, None, "None", "existing", "not_called", existing_bracket))
               ELSE IF tournament_config.player_ids = << >>
               THEN Raise("ValueError", "no_players")
               ELSE IF tournament_config.tournament_type # "SINGLE_ELIMINATION"
               THEN Raise("NotImplementedError", "tournament_type")
               ELSE IF TooFewPlayers(Len(tournament_config.player_ids))
               THEN Raise("ValueError", "at_least_2_players")
               ELSE LET built == GenerateSingleEliminationMatches(shuffled, tournament_id, ids)
                        bracket == BracketModel(tournament_id, tournament_config.tournament_type,
                                                built.matches, built.rounds_structure)
                        saved == Append(WithoutTournament(bl, tournament_id), bracket)
                        ids2 == ids + Len(built.matches)
                        calls2 == Append(calls, SinkCall(tournament_id, "ACTIVE", sinkOutcome))
                    IN Outcome(SinkEffect(ts, tournament_id, "ACTIVE", sinkOutcome), saved, ids2, calls2,
                               IF sinkOutcome = "ok"
                               THEN Call("create", tournament_id, None, "None", "generated", sinkOutcome, << bracket >>)
                               ELSE Call("create", tournament_id, None, sinkOutcome, "status_update", sinkOutcome, << >>))

\* fault: the admin check dropped
IsNotAdminNever(tournament_config, current_user_id) == FALSE

\* tournament_config.admin_id != current_user_id
IsNotAdmin(tournament_config, current_user_id) ==
    tournament_config.admin_id # current_user_id

\* fault: only BYE matches refused, decided matches can be recorded again
StatusIsBye(current_match) == current_match.status \in {"BYE"}

\* current_match.status not in [MatchStatus.PENDING]
StatusNotPending(current_match) == current_match.status \notin {"PENDING"}

\* fault: `and` written for `or`, a match with one player passes
MissingBothPlayers(current_match) ==
    current_match.player1_id = None /\ current_match.player2_id = None

\* not current_match.player1_id or not current_match.player2_id
\* (a player id is a non-empty string, so it is falsy only when None)
MissingPlayer(current_match) ==
    current_match.player1_id = None \/ current_match.player2_id = None

\* p1_score == p2_score
ScoresEqual(p1_score, p2_score) == p1_score = p2_score

\* fault: the status set without the winner_id
DetermineWinnerStatusOnly(current_match, p1_score, p2_score) ==
    LET scored == [current_match EXCEPT !.score_player1 = p1_score,
                                        !.score_player2 = p2_score]
    IN IF p1_score > p2_score
       THEN [scored EXCEPT !.status = "PLAYER1_WIN"]
       ELSE IF p2_score > p1_score
       THEN [scored EXCEPT !.status = "PLAYER2_WIN"]
       ELSE scored

\* fault: the comparisons swapped, the lower score wins
DetermineWinnerLowerScore(current_match, p1_score, p2_score) ==
    LET scored == [current_match EXCEPT !.score_player1 = p1_score,
                                        !.score_player2 = p2_score]
    IN IF p1_score < p2_score
       THEN [scored EXCEPT !.winner_id = current_match.player1_id,
                           !.status = "PLAYER1_WIN"]
       ELSE IF p2_score < p1_score
       THEN [scored EXCEPT !.winner_id = current_match.player2_id,
                           !.status = "PLAYER2_WIN"]
       ELSE scored

\* "Determine winner and update status": the scores are stored, then the
\* strictly greater score picks the winner; neither branch runs on a tie
DetermineWinner(current_match, p1_score, p2_score) ==
    LET scored == [current_match EXCEPT !.score_player1 = p1_score,
                                        !.score_player2 = p2_score]
    IN IF p1_score > p2_score
       THEN [scored EXCEPT !.winner_id = current_match.player1_id,
                           !.status = "PLAYER1_WIN"]
       ELSE IF p2_score > p1_score
       THEN [scored EXCEPT !.winner_id = current_match.player2_id,
                           !.status = "PLAYER2_WIN"]
       ELSE scored

\* fault: the winner always written into slot 1
WriteWinnerSlotAlwaysFirst(next_match_object, updated_match_model) ==
    [next_match_object EXCEPT !.player1_id = updated_match_model.winner_id]

\* the write into the next match: slot 1, slot 2, or no write (the caller
\* raises RuntimeError on any other winner_to_player_slot)
WriteWinnerSlot(next_match_object, updated_match_model) ==
    IF updated_match_model.winner_to_player_slot = 1
    THEN [next_match_object EXCEPT !.player1_id = updated_match_model.winner_id]
    ELSE IF updated_match_model.winner_to_player_slot = 2
    THEN [next_match_object EXCEPT !.player2_id = updated_match_model.winner_id]
    ELSE next_match_object

\* fault: the winner written into both slots of the next match
AdvanceWinnerBothSlots(matches, updated_match_model) ==
    LET k == IndexOfMatch(matches, updated_match_model.next_match_id)
    IN IF k = 0 THEN matches
       ELSE [matches EXCEPT ![k].player1_id = updated_match_model.winner_id,
                            ![k].player2_id = updated_match_model.winner_id]

\* `for k, potential_next_match in enumerate(bracket.matches)`: the first
\* match with the id next_match_id gets the winner; no such match, no write
AdvanceWinner(matches, updated_match_model) ==
    LET k == IndexOfMatch(matches, updated_match_model.next_match_id)
    IN IF k = 0 THEN matches
       ELSE [matches EXCEPT ![k] = WriteWinnerSlot(matches[k], updated_match_model)]

\* fault: the search's failure not tested, the call goes on to the save
NextMatchMissingIgnored(matches, updated_match_model) == FALSE

\* `if not next_match_found_for_advancement` after the search
NextMatchMissing(matches, updated_match_model) ==
    IndexOfMatch(matches, updated_match_model.next_match_id) = 0

\* fault: the test on next_match_id inverted
IsFinalMatchInverted(updated_match_model) == updated_match_model.next_match_id # None

\* `if updated_match_model.next_match_id:` is false: this was the final
IsFinalMatch(updated_match_model) == updated_match_model.next_match_id = None

\* record_match_result with the sink's outcome given (used only when the
\* final is decided); an exception before the save leaves the file as it was
RecordMatchResult(ts, bl, ids, calls, tournament_id, match_id, p1_score, p2_score, current_user_id, sinkOutcome) ==
    LET Raise(exc, msg) ==
            Outcome(ts, bl, ids, calls, Call("record", tournament_id, match_id, exc, msg, "not_called", << >>))
        RaiseEarly(exc, msg) ==
            Outcome(ts, bl, ids, calls, Call("record", tournament_id, None, exc, msg, "not_called", << >>))
    IN IF ~HasTournament(ts, tournament_id)
       THEN RaiseEarly("ValueError", "tournament_not_found")
       ELSE IF IsNotAdmin(ts[tournament_id], current_user_id)
       THEN RaiseEarly("PermissionError", "not_authorized")
       ELSE LET i == IndexOfBracket(bl, tournament_id)
            IN IF i = 0
               THEN RaiseEarly("ValueError", "bracket_not_found")
               ELSE LET bracket == bl[i]
                        j == IndexOfMatch(bracket.matches, match_id)
                    IN IF j = 0
                       THEN RaiseEarly("ValueError", "match_not_found")
                       ELSE LET current_match == bracket.matches[j]
                            IN IF StatusNotPending(current_match)
                               THEN Raise("ValueError", "status_not_pending")
                               ELSE IF MissingPlayer(current_match)
                               THEN Raise("ValueError", "two_players_required")
                               ELSE IF ScoresEqual(p1_score, p2_score)
                               THEN Raise("ValueError", "scores_equal")
                               ELSE LET updated_match_model == DetermineWinner(current_match, p1_score, p2_score)
                                        matches1 == [bracket.matches EXCEPT ![j] = updated_match_model]
                                        Save(matches2) == [bl EXCEPT ![i] = [bracket EXCEPT !.matches = matches2]]
                                    IN IF ~IsFinalMatch(updated_match_model)
                                       THEN IF NextMatchMissing(matches1, updated_match_model)
                                               THEN Raise("RuntimeError", "next_match_not_found")
                                               ELSE IF updated_match_model.winner_to_player_slot \notin {1, 2}
                                               THEN Raise("RuntimeError", "invalid_winner_slot")
                                               ELSE LET matches2 == AdvanceWinner(matches1, updated_match_model)
                                                    IN Outcome(ts, Save(matches2), ids, calls,
                                                               Call("record", tournament_id, match_id, "None", "recorded",
                                                                    "not_called", << matches2[j] >>))
                                       ELSE LET calls2 == Append(calls, SinkCall(tournament_id, "COMPLETED", sinkOutcome))
                                            IN IF sinkOutcome \in {"ok", "ValueError"}
                                               THEN Outcome(SinkEffect(ts, tournament_id, "COMPLETED", sinkOutcome),
                                                            Save(matches1), ids, calls2,
                                                            Call("record", tournament_id, match_id, "None", "recorded",
                                                                 sinkOutcome, << updated_match_model >>))
                                               ELSE Outcome(SinkEffect(ts, tournament_id, "COMPLETED", sinkOutcome),
                                                            bl, ids, calls2,
                                                            Call("record", tournament_id, match_id, sinkOutcome,
                                                                 "status_update", sinkOutcome, << >>))

\* ------------------------------------------------------------ state machine
TournamentConfig(tournament_type, admin_id, player_ids, status) ==
    [tournament_type |-> tournament_type, admin_id |-> admin_id,
     player_ids |-> player_ids, status |-> status]

\* the roster of n registered players, in registration order
Roster(n) == [i \in 1..n |-> i]

\* a caller's record_match_result call: pc is "idle" before the call,
\* "loaded" once _load_brackets_from_file has returned brackets_list (line
\* 467), "returned" when the call has ended with `call`; made counts its calls
CallState(pc, made, tournament_id, match_id, p1_score, p2_score, brackets_list, call) ==
    [pc |-> pc, made |-> made, tournament_id |-> tournament_id, match_id |-> match_id,
     p1_score |-> p1_score, p2_score |-> p2_score,
     brackets_list |-> brackets_list, call |-> call]

IdleCall == CallState("idle", 0, None, None, None, None, << >>, << >>)

\* after construction of the services: the tournaments created so far (any
\* type, roster and status a TournamentConfig accepts), an empty brackets file
InitWith(maxRoster) ==
    /\ tournaments \in [TournamentIds ->
            { TournamentConfig(ty, "admin", Roster(n), st) :
                  ty \in TournamentType, n \in 0..maxRoster, st \in allowed_statuses }]
    /\ brackets = << >>
    /\ uuids = 0
    /\ sinkCalls = << >>
    /\ lastCall = Call("init", None, None, "None", "init", "not_called", << >>)
    /\ inflight = [c \in Callers |-> IdleCall]

Init == InitWith(MaxPlayers)

Apply(out) ==
    /\ tournaments' = out.tournaments
    /\ brackets' = out.brackets
    /\ uuids' = out.uuids
    /\ sinkCalls' = out.sinkCalls
    /\ lastCall' = out.call
    /\ UNCHANGED inflight

RequestTournamentIds == DOMAIN tournaments \cup {UnknownTournamentId}

\* the match ids a caller may send: every id issued so far and one unknown
RequestMatchIds == 1..(uuids + 1)

\* the roster as build may see it after random.shuffle
ShufflesFor(tournament_id) ==
    IF /\ HasTournament(tournaments, tournament_id)
       /\ ~(/\ tournaments[tournament_id].status \in {"ACTIVE", "COMPLETED"}
            /\ GetBracketByTournamentId(brackets, tournament_id) # << >>)
       /\ tournaments[tournament_id].tournament_type = "SINGLE_ELIMINATION"
    THEN Shuffles(tournaments[tournament_id].player_ids)
    ELSE { << >> }

GenerateBracket(sinkOutcomes) ==
    \E tournament_id \in RequestTournamentIds, sinkOutcome \in sinkOutcomes :
        \E shuffled \in ShufflesFor(tournament_id) :
            Apply(CreateBracketForTournament(tournaments, brackets, uuids, sinkCalls,
                                             tournament_id, shuffled, sinkOutcome))

RecordResult(sinkOutcomes) ==
    \E tournament_id \in RequestTournamentIds, match_id \in RequestMatchIds,
       p1_score \in Scores, p2_score \in Scores, current_user_id \in Users,
       sinkOutcome \in sinkOutcomes :
        /\ Len(sinkCalls) < MaxSinkCalls
        /\ Apply(RecordMatchResult(tournaments, brackets, uuids, sinkCalls, tournament_id,
                                   match_id, p1_score, p2_score, current_user_id, sinkOutcome))

\* the status sink always returns
GenerateBracketOk == GenerateBracket({"ok"})
RecordResultOk == RecordResult({"ok"})

Next == GenerateBracketOk \/ RecordResultOk

Spec == Init /\ [][Next]_vars

\* a record_match_result call that decides a match: the admin's call on a
\* PENDING match with both players, with distinct scores
RecordPlayable ==
    \E tournament_id \in DOMAIN tournaments, match_id \in 1..uuids,
       p1_score \in Scores, p2_score \in Scores :
        LET out == RecordMatchResult(tournaments, brackets, uuids, sinkCalls, tournament_id,
                                     match_id, p1_score, p2_score,
                                     tournaments[tournament_id].admin_id, "ok")
        IN /\ Len(sinkCalls) < MaxSinkCalls
           /\ p1_score # p2_score
           /\ out.call.exc = "None"
           /\ Apply(out)

\* the admin goes on recording results: a match that can be decided is not
\* left undecided for ever
InitFairRecording == InitWith(MaxFairPlayers)

SpecFairRecording == InitFairRecording /\ [][Next]_vars /\ WF_vars(RecordPlayable)

\* the COMPLETED update of the status sink may fail
RecordResultSinkMayFail == RecordResult(SinkOutcomes)

NextSinkFail == GenerateBracketOk \/ RecordResultSinkMayFail

SpecSinkFail == Init /\ [][NextSinkFail]_vars

\* bracket generation alone, on larger rosters
InitBuild == InitWith(MaxBuildPlayers)

NextBuild == GenerateBracketOk

SpecBuild == InitBuild /\ [][NextBuild]_vars

\* the matches of a brackets file whose next_match_id names no match of
\* their bracket, as <<bracket position, match position>>
DanglingLinks(brackets_list) ==
    { ij \in UNION { { <<i, j>> : j \in 1..Len(brackets_list[i].matches) } : i \in 1..Len(brackets_list) } :
        /\ brackets_list[ij[1]].matches[ij[2]].next_match_id # None
        /\ IndexOfMatch(brackets_list[ij[1]].matches,
                        brackets_list[ij[1]].matches[ij[2]].next_match_id) = 0 }

\* brackets.json is a plain file that _load_brackets_from_file reads as it
\* finds it: an edit or a damaged write outside the service leaves a linked
\* match with a next_match_id that no match of the bracket has
DamageBracketsFile ==
    /\ DanglingLinks(brackets) = {}
    /\ \E i \in 1..Len(brackets) : \E j \in 1..Len(brackets[i].matches) :
          /\ brackets[i].matches[j].next_match_id # None
          /\ brackets' = [brackets EXCEPT ![i].matches[j].next_match_id = uuids + 1]
    /\ UNCHANGED <<tournaments, uuids, sinkCalls, lastCall, inflight>>

NextDamaged == GenerateBracketOk \/ RecordResultOk \/ DamageBracketsFile

SpecDamaged == Init /\ [][NextDamaged]_vars

\* PATCH /{tournament_id}/status: the admin sets any allowed status through
\* TournamentService.update_tournament_status, which checks the value and
\* not the status it replaces (sinkCalls logs the bracket service's calls
\* only, so it is left alone)
UpdateStatus ==
    \E tournament_id \in DOMAIN tournaments, status \in allowed_statuses :
        /\ uuids < MaxIssuedIds
        /\ tournaments' = UpdateTournamentStatus(tournaments, tournament_id, status)
        /\ lastCall' = Call("status", tournament_id, None, "None", status, "not_called", << >>)
        /\ UNCHANGED <<brackets, uuids, sinkCalls, inflight>>

NextStatus == GenerateBracketOk \/ RecordResultOk \/ UpdateStatus

SpecStatus == Init /\ [][NextStatus]_vars

\* two single elimination tournaments with enough players, of any status,
\* sharing the one brackets file; generation, recording and status updates
InitTwoTournaments ==
    /\ tournaments \in [TwoTournamentIds ->
            { TournamentConfig("SINGLE_ELIMINATION", "admin", Roster(n), st) :
                  n \in 2..MaxPlayersOfTwo, st \in allowed_statuses }]
    /\ brackets = << >>
    /\ uuids = 0
    /\ sinkCalls = << >>
    /\ lastCall = Call("init", None, None, "None", "init", "not_called", << >>)
    /\ inflight = [c \in Callers |-> IdleCall]

SpecTwoTournaments == InitTwoTournaments /\ [][NextStatus]_vars

\* record_match_result as far as its last statement before the save (lines
\* 457-555), one call at a time (caller 1): a call that raises ends there; a
\* call that goes on has made the status sink's call, if it decided the
\* final, and holds the brackets_list it is about to write
RecordThroughSink ==
    \E tournament_id \in RequestTournamentIds, match_id \in RequestMatchIds,
       p1_score \in Scores, p2_score \in Scores, current_user_id \in Users :
        /\ inflight[1].pc # "mutated"
        /\ Len(sinkCalls) < MaxSinkCalls
        /\ LET out == RecordMatchResult(tournaments, brackets, uuids, sinkCalls, tournament_id,
                                        match_id, p1_score, p2_score, current_user_id, "ok")
           IN IF out.call.exc # "None"
              THEN Apply(out)
              ELSE /\ tournaments' = out.tournaments
                   /\ sinkCalls' = out.sinkCalls
                   /\ inflight' = [inflight EXCEPT ![1] =
                          CallState("mutated", 0, tournament_id, match_id, p1_score, p2_score,
                                    out.brackets, << out.call >>)]
                   /\ UNCHANGED <<brackets, uuids, lastCall>>

\* self._save_brackets_to_file(brackets_list), line 559: the file gets the
\* list and the call returns the match
SaveBracketsToFile ==
    /\ inflight[1].pc = "mutated"
    /\ brackets' = inflight[1].brackets_list
    /\ lastCall' = inflight[1].call[1]
    /\ inflight' = [inflight EXCEPT ![1] = IdleCall]
    /\ UNCHANGED <<tournaments, uuids, sinkCalls>>

\* _save_brackets_to_file raises (lines 41-43): open(path, "w") failed and
\* the file is as it was, or the write broke off after the file was
\* truncated, and _load_brackets_from_file then reads it as [] (lines 38-39)
SaveBracketsToFileFails ==
    /\ inflight[1].pc = "mutated"
    /\ uuids < MaxIssuedIds
    /\ brackets' \in {brackets, << >>}
    /\ lastCall' = Call("record", inflight[1].tournament_id, inflight[1].match_id,
                        "OSError", "save_failed", inflight[1].call[1].sink, << >>)
    /\ inflight' = [inflight EXCEPT ![1] = IdleCall]
    /\ UNCHANGED <<tournaments, uuids, sinkCalls>>

GenerateBracketBetweenCalls == inflight[1].pc # "mutated" /\ GenerateBracketOk

NextSaveSteps ==
    GenerateBracketBetweenCalls \/ RecordThroughSink \/ SaveBracketsToFile \/ SaveBracketsToFileFails

SpecSaveSteps == Init /\ [][NextSaveSteps]_vars

\* line 223 of the draft pass, reached by every call that passed the check
\* of line 111: {i: str(uuid4()) for i in range(total_matches_in_bracket)}
\* looks up uuid4 once per element, and bracket_service.py binds no such
\* name, so the comprehension raises NameError unless the range is empty
MatchIdMapRaises(num_players) == BracketSize(num_players) - 1 >= 1

\* create_bracket_for_tournament with _generate_single_elimination_matches
\* run from its first line: a call that gets as far as building stops at
\* line 223, before anything is stored and before the status sink is called
CreateBracketForTournamentAsWritten(ts, bl, ids, calls, tournament_id, shuffled, sinkOutcome) ==
    LET out == CreateBracketForTournament(ts, bl, ids, calls, tournament_id, shuffled, sinkOutcome)
    IN IF /\ out.call.msg \in {"generated", "status_update"}
          /\ MatchIdMapRaises(Len(ts[tournament_id].player_ids))
       THEN Outcome(ts, bl, ids, calls,
                    Call("create", tournament_id, None, "NameError", "uuid4_not_defined", "not_called", << >>))
       ELSE out

GenerateBracketAsWritten ==
    \E tournament_id \in RequestTournamentIds :
        \E shuffled \in ShufflesFor(tournament_id) :
            Apply(CreateBracketForTournamentAsWritten(tournaments, brackets, uuids, sinkCalls,
                                                      tournament_id, shuffled, "ok"))

NextAsWritten == GenerateBracketAsWritten \/ RecordResultOk

SpecAsWritten == Init /\ [][NextAsWritten]_vars

\* record_match_result up to line 467 for caller c: the tournament and admin
\* checks end the call at once; otherwise the brackets file is read into the
\* caller's brackets_list and the call goes on from that copy
BeginRecord(c) ==
    \E tournament_id \in RequestTournamentIds, match_id \in RequestMatchIds,
       p1_score \in Scores, p2_score \in Scores, current_user_id \in Users :
        /\ inflight[c].pc \in {"idle", "returned"}
        /\ inflight[c].made < MaxCallsPerCaller
        /\ Len(sinkCalls) < MaxSinkCalls
        /\ IF \/ ~HasTournament(tournaments, tournament_id)
              \/ IsNotAdmin(tournaments[tournament_id], current_user_id)
           THEN LET out == RecordMatchResult(tournaments, brackets, uuids, sinkCalls, tournament_id,
                                            match_id, p1_score, p2_score, current_user_id, "ok")
                IN /\ inflight' = [inflight EXCEPT ![c] =
                          CallState("returned", inflight[c].made + 1, tournament_id, None,
                                    None, None, << >>, << out.call >>)]
                   /\ lastCall' = out.call
           ELSE /\ inflight' = [inflight EXCEPT ![c] =
                       CallState("loaded", inflight[c].made + 1, tournament_id, match_id,
                                 p1_score, p2_score, brackets, << >>)]
                /\ UNCHANGED lastCall
        /\ UNCHANGED <<tournaments, brackets, uuids, sinkCalls>>

\* record_match_result from line 468 to its end for caller c, on the
\* brackets_list it loaded: a call that returns has written that whole list,
\* with its own changes, over the file (line 559); a call that raises has
\* written nothing
FinishRecord(c) ==
    /\ inflight[c].pc = "loaded"
    /\ LET r == inflight[c]
           out == RecordMatchResult(tournaments, r.brackets_list, uuids, sinkCalls, r.tournament_id,
                                    r.match_id, r.p1_score, r.p2_score,
                                    tournaments[r.tournament_id].admin_id, "ok")
       IN /\ brackets' = IF out.call.exc = "None" THEN out.brackets ELSE brackets
          /\ tournaments' = out.tournaments
          /\ sinkCalls' = out.sinkCalls
          /\ lastCall' = out.call
          /\ inflight' = [inflight EXCEPT ![c] =
                 CallState("returned", r.made, r.tournament_id, r.match_id,
                           r.p1_score, r.p2_score, << >>, << out.call >>)]
          /\ UNCHANGED uuids

BeginRecordAny == \E c \in Callers : BeginRecord(c)
FinishRecordAny == \E c \in Callers : FinishRecord(c)

\* request handlers running record_match_result at the same time, with no
\* lock around the load and the save of the brackets file
NextConcurrent == GenerateBracketOk \/ BeginRecordAny \/ FinishRecordAny

SpecConcurrent == Init /\ [][NextConcurrent]_vars

\* the same handlers with two tournaments in the one brackets file
SpecTwoConcurrent == InitTwoTournaments /\ [][NextConcurrent]_vars

\* ------------------------------------------------------------- properties
\* the brackets of the file, and the roster a bracket was generated from
StoredBrackets == { brackets[i] : i \in 1..Len(brackets) }
InputPlayers(b) == { tournaments[b.tournament_id].player_ids[i] :
                        i \in 1..Len(tournaments[b.tournament_id].player_ids) }
MatchesOf(b) == { b.matches[j] : j \in 1..Len(b.matches) }

\* smallest power of two >= n and its logarithm, by definition
PowersOfTwo == { 2 ^ k : k \in 0..MaxBuildPlayers }
SmallestPowerOfTwoAtLeast(n) ==
    CHOOSE b \in PowersOfTwo : b >= n /\ \A c \in PowersOfTwo : c >= n => b <= c
Log2(b) == CHOOSE k \in 0..MaxBuildPlayers : 2 ^ k = b

\* C1: a generated bracket for n >= 2 players has exactly bracketSize(n) - 1
\* matches in exactly log2(bracketSize(n)) rounds, bracketSize(n) being the
\* smallest power of two >= n.
C1_MatchAndRoundCount ==
    \A b \in StoredBrackets :
        LET n == Cardinality(InputPlayers(b))
            size == SmallestPowerOfTwoAtLeast(n)
        IN /\ n >= 2
           /\ Len(b.matches) = size - 1
           /\ Len(b.rounds_structure) = Log2(size)
           /\ { m.round_number : m \in MatchesOf(b) } = 1..Log2(size)

\* a bracket for a roster that is not a power of two (5 players, 7 matches,
\* 3 rounds) and was just generated
C1_Witness ==
    /\ lastCall.op = "create" /\ lastCall.msg = "generated"
    /\ \E b \in StoredBrackets :
          /\ Cardinality(InputPlayers(b)) = 5
          /\ Len(b.matches) = 7
          /\ Len(b.rounds_structure) = 3

\* the last round of a bracket and its matches without a next match
LastRound(b) == Len(b.rounds_structure)
Unlinked(b) == { m \in MatchesOf(b) : m.next_match_id = None }

\* C2: in a generated bracket every match but the final, BYE matches
\* included, has a next_match_id naming a match of the bracket one round
\* later; exactly one match, the final in the last round, has none.
C2_EveryNonFinalLinked ==
    \A b \in StoredBrackets :
        /\ Cardinality(Unlinked(b)) = 1
        /\ \A m \in Unlinked(b) : m.round_number = LastRound(b)
        /\ \A m \in MatchesOf(b) \ Unlinked(b) :
              \E t \in MatchesOf(b) :
                  t.id = m.next_match_id /\ t.round_number = m.round_number + 1

\* the slots (match position, slot number) of a bracket that hold player p
SlotsHolding(b, p) ==
    { <<j, 1>> : j \in { j \in 1..Len(b.matches) : b.matches[j].player1_id = p } }
    \cup { <<j, 2>> : j \in { j \in 1..Len(b.matches) : b.matches[j].player2_id = p } }
SlotPlayers(b) ==
    ({ m.player1_id : m \in MatchesOf(b) } \cup { m.player2_id : m \in MatchesOf(b) }) \ {None}
Round1Slots(b, p) == { sl \in SlotsHolding(b, p) : b.matches[sl[1]].round_number = 1 }
HasBye(b, p) == \E m \in MatchesOf(b) : m.status = "BYE" /\ m.player1_id = p

\* C3 as stated: the players in the slots of a generated bracket are the
\* input players, each in exactly one slot of the whole bracket.
C3_EachPlayerInOneSlot ==
    \A b \in StoredBrackets :
        /\ SlotPlayers(b) = InputPlayers(b)
        /\ \A p \in InputPlayers(b) : Cardinality(SlotsHolding(b, p)) = 1

\* C3 amended: the players in the slots of a generated bracket are the input
\* players; each is in exactly one round-1 slot; a player of a played
\* round-1 match is in no other slot, and a bye player is in exactly one
\* more slot, of a round-2 match.
C3_EachPlayerInOneRound1Slot ==
    \A b \in StoredBrackets :
        /\ SlotPlayers(b) = InputPlayers(b)
        /\ \A p \in InputPlayers(b) :
              /\ Cardinality(Round1Slots(b, p)) = 1
              /\ ~HasBye(b, p) => Cardinality(SlotsHolding(b, p)) = 1
              /\ HasBye(b, p) =>
                    /\ Cardinality(SlotsHolding(b, p)) = 2
                    /\ \E sl \in SlotsHolding(b, p) : b.matches[sl[1]].round_number = 2

\* a just generated bracket with byes and played round-1 matches (6 players)
C3_Witness ==
    /\ lastCall.op = "create" /\ lastCall.msg = "generated"
    /\ \E b \in StoredBrackets :
          /\ Cardinality(InputPlayers(b)) = 6
          /\ \E p \in InputPlayers(b) : HasBye(b, p)
          /\ \E p \in InputPlayers(b) : ~HasBye(b, p)

\* record_match_result called in the current state
Record(tournament_id, match_id, p1_score, p2_score, current_user_id, sinkOutcome) ==
    RecordMatchResult(tournaments, brackets, uuids, sinkCalls, tournament_id,
                      match_id, p1_score, p2_score, current_user_id, sinkOutcome)
AdminOf(tournament_id) == tournaments[tournament_id].admin_id
Decided(m) == m.status \in {"PLAYER1_WIN", "PLAYER2_WIN"}
Playable(m) == m.status = "PENDING" /\ m.player1_id # None /\ m.player2_id # None
SlotUnset(m) == m.player1_id = None \/ m.player2_id = None
\* the stored match with the id, in a brackets file
StoredMatch(brackets_list, tournament_id, match_id) ==
    LET b == brackets_list[IndexOfBracket(brackets_list, tournament_id)]
    IN b.matches[IndexOfMatch(b.matches, match_id)]
\* the match the last call located, as stored now
LocatedMatch == StoredMatch(brackets, lastCall.tournament_id, lastCall.match_id)
Rejected(out, msg) ==
    /\ out.call.exc = "ValueError" /\ out.call.msg = msg /\ out.call.returned = << >>
    /\ out.brackets = brackets /\ out.tournaments = tournaments

\* C4: a match leaves PENDING at most once: once a match is decided (or is
\* a BYE), every record_match_result on it by the admin, whatever the scores, is refused
\* with the "only PENDING matches can be updated" ValueError and changes
\* nothing, and its status, winner_id and scores are the same in every
\* later state.
C4_Refused ==
    \A b \in StoredBrackets :
        \A m \in { x \in MatchesOf(b) : x.status # "PENDING" } :
            \A s1 \in Scores, s2 \in Scores, sink \in SinkOutcomes :
                Rejected(Record(b.tournament_id, m.id, s1, s2, AdminOf(b.tournament_id), sink),
                         "status_not_pending")
C4_Step ==
    \A i \in 1..Len(brackets) : \A j \in 1..Len(brackets[i].matches) :
        LET m == brackets[i].matches[j]
        IN m.status # "PENDING" =>
              /\ i <= Len(brackets') /\ j <= Len(brackets'[i].matches)
              /\ brackets'[i].matches[j].id = m.id
              /\ brackets'[i].matches[j].status = m.status
              /\ brackets'[i].matches[j].winner_id = m.winner_id
              /\ brackets'[i].matches[j].score_player1 = m.score_player1
              /\ brackets'[i].matches[j].score_player2 = m.score_player2
C4_DecidedOnce == []C4_Refused /\ [][C4_Step]_vars

\* a second record on a match that an earlier call decided was just refused
C4_Witness ==
    /\ lastCall.op = "record" /\ lastCall.exc = "ValueError"
    /\ lastCall.msg = "status_not_pending"
    /\ Decided(LocatedMatch)

\* C5: recording distinct scores on a PENDING match with both players
\* succeeds, stores both scores, and gives PLAYER1_WIN with winner player1
\* when score1 > score2, PLAYER2_WIN with winner player2 when score2 >
\* score1; no stored match has any other decided status or winner.
C5_WinnerFromScores ==
    \A b \in StoredBrackets :
        /\ \A m \in MatchesOf(b) :
              /\ m.status \in {"PENDING", "BYE", "PLAYER1_WIN", "PLAYER2_WIN"}
              /\ m.status = "PLAYER1_WIN" =>
                    m.winner_id = m.player1_id /\ m.score_player1 > m.score_player2
              /\ m.status = "PLAYER2_WIN" =>
                    m.winner_id = m.player2_id /\ m.score_player2 > m.score_player1
        /\ \A m \in { x \in MatchesOf(b) : Playable(x) } :
              \A s1 \in Scores, s2 \in Scores :
                  s1 # s2 =>
                      LET out == Record(b.tournament_id, m.id, s1, s2, AdminOf(b.tournament_id), "ok")
                          r == StoredMatch(out.brackets, b.tournament_id, m.id)
                      IN /\ out.call.exc = "None"
                         /\ out.call.returned = << r >>
                         /\ r.score_player1 = s1 /\ r.score_player2 = s2
                         /\ r.player1_id = m.player1_id /\ r.player2_id = m.player2_id
                         /\ s1 > s2 => r.status = "PLAYER1_WIN" /\ r.winner_id = m.player1_id
                         /\ s2 > s1 => r.status = "PLAYER2_WIN" /\ r.winner_id = m.player2_id

\* a record with the higher score on player 2 just succeeded
C5_Witness ==
    /\ lastCall.op = "record" /\ lastCall.exc = "None"
    /\ lastCall.returned # << >>
    /\ lastCall.returned[1].status = "PLAYER2_WIN"
    /\ lastCall.returned[1].score_player2 > lastCall.returned[1].score_player1
    /\ LocatedMatch.winner_id = LocatedMatch.player2_id

\* C6: when a record decides a match that has a next match, the stored
\* next match gets the winner in player1_id for winner_to_player_slot 1 and
\* in player2_id for slot 2, and is otherwise as before: other slot
\* unchanged, status PENDING, also when only one slot is filled.
C6_WinnerAdvances ==
    \A b \in StoredBrackets :
        \A m \in { x \in MatchesOf(b) : Playable(x) /\ x.next_match_id # None } :
            \A s1 \in Scores, s2 \in Scores :
                s1 # s2 =>
                    LET out == Record(b.tournament_id, m.id, s1, s2, AdminOf(b.tournament_id), "ok")
                        winner == IF s1 > s2 THEN m.player1_id ELSE m.player2_id
                        t == StoredMatch(brackets, b.tournament_id, m.next_match_id)
                        t2 == StoredMatch(out.brackets, b.tournament_id, m.next_match_id)
                    IN /\ out.call.exc = "None"
                       /\ m.winner_to_player_slot \in {1, 2}
                       /\ m.winner_to_player_slot = 1 => t2 = [t EXCEPT !.player1_id = winner]
                       /\ m.winner_to_player_slot = 2 => t2 = [t EXCEPT !.player2_id = winner]
                       /\ t2.status = "PENDING"

\* a record just advanced its winner into slot 1 of a next match whose
\* slot 2 is still empty, and that match is PENDING
C6_Witness ==
    /\ lastCall.op = "record" /\ lastCall.exc = "None"
    /\ lastCall.returned # << >>
    /\ lastCall.returned[1].next_match_id # None
    /\ lastCall.returned[1].winner_to_player_slot = 1
    /\ LET t == StoredMatch(brackets, lastCall.tournament_id, lastCall.returned[1].next_match_id)
       IN /\ t.player1_id = lastCall.returned[1].winner_id
          /\ t.player2_id = None
          /\ t.status = "PENDING"

\* C7: on a PENDING match the admin's record fails with the ValueError of
\* invalid input whenever the scores are equal and whenever a player slot
\* is unset (whatever the scores); nothing is stored and the match stays
\* PENDING without scores or winner.
C7_InvalidInputRejected ==
    \A b \in StoredBrackets :
        \A m \in { x \in MatchesOf(b) : x.status = "PENDING" } :
            \A s1 \in Scores, s2 \in Scores, sink \in SinkOutcomes :
                LET out == Record(b.tournament_id, m.id, s1, s2, AdminOf(b.tournament_id), sink)
                    r == StoredMatch(out.brackets, b.tournament_id, m.id)
                IN /\ SlotUnset(m) => Rejected(out, "two_players_required")
                   /\ (~SlotUnset(m) /\ s1 = s2) => Rejected(out, "scores_equal")
                   /\ (SlotUnset(m) \/ s1 = s2) =>
                         /\ r.status = "PENDING" /\ r.winner_id = None
                         /\ r.score_player1 = None /\ r.score_player2 = None

\* a record with equal scores on a playable match was just refused
C7_Witness ==
    /\ lastCall.op = "record" /\ lastCall.exc = "ValueError"
    /\ lastCall.msg = "scores_equal"
    /\ Playable(LocatedMatch)
    /\ LocatedMatch.score_player1 = None /\ LocatedMatch.winner_id = None

\* C8: a record by a requester who is not the tournament's admin raises
\* PermissionError for every match id and score pair and changes nothing.
C8_NonAdminForbidden ==
    \A tid \in DOMAIN tournaments :
        \A user \in Users \ {AdminOf(tid)} :
            \A mid \in RequestMatchIds, s1 \in Scores, s2 \in Scores, sink \in SinkOutcomes :
                LET out == Record(tid, mid, s1, s2, user, sink)
                IN /\ out.call.exc = "PermissionError"
                   /\ out.call.returned = << >>
                   /\ out.brackets = brackets
                   /\ out.tournaments = tournaments
                   /\ out.sinkCalls = sinkCalls

\* a non-admin's record on a tournament with a playable match was just refused
C8_Witness ==
    /\ lastCall.op = "record" /\ lastCall.exc = "PermissionError"
    /\ \E b \in StoredBrackets :
          /\ b.tournament_id = lastCall.tournament_id
          /\ \E m \in MatchesOf(b) : Playable(m)

\* the COMPLETED updates sent to the status sink for a tournament
CompletedSignals(tournament_id) ==
    Cardinality({ i \in 1..Len(sinkCalls) :
                    /\ sinkCalls[i].tournament_id = tournament_id
                    /\ sinkCalls[i].status = "COMPLETED" })
FinalDecided(b) == \E m \in MatchesOf(b) : m.round_number = LastRound(b) /\ Decided(m)

\* C9: from generation until the final is decided the COMPLETED update is
\* sent to the status sink exactly once, by the record that decides the
\* final: none while the final is undecided, one once it is decided.
C9_CompletedOnce ==
    /\ \A tid \in DOMAIN tournaments :
          /\ GetBracketByTournamentId(brackets, tid) = << >> => CompletedSignals(tid) = 0
          /\ \A b \in { x \in StoredBrackets : x.tournament_id = tid } :
                CompletedSignals(tid) = IF FinalDecided(b) THEN 1 ELSE 0
    /\ (lastCall.op = "record" /\ lastCall.sink # "not_called") =>
          /\ lastCall.returned # << >>
          /\ Decided(lastCall.returned[1])
          /\ lastCall.returned[1].next_match_id = None
          /\ \E b \in StoredBrackets :
                /\ b.tournament_id = lastCall.tournament_id
                /\ lastCall.returned[1].round_number = LastRound(b)
                /\ LocatedMatch = lastCall.returned[1]

\* the final of a bracket of at least two rounds was just decided, after
\* the records of the earlier rounds, and the one COMPLETED update was sent
C9_Witness ==
    /\ lastCall.op = "record" /\ lastCall.sink = "ok"
    /\ CompletedSignals(lastCall.tournament_id) = 1
    /\ tournaments[lastCall.tournament_id].status = "COMPLETED"
    /\ \E b \in StoredBrackets :
          /\ b.tournament_id = lastCall.tournament_id
          /\ LastRound(b) >= 2
          /\ \A m \in MatchesOf(b) : m.status # "PENDING"

\* C10: when the COMPLETED update of the status sink fails in the record
\* that decides the final, the decision is stored all the same and the call
\* reports the failure instead of returning normally.
C10_SinkFailureReported ==
    (lastCall.op = "record" /\ lastCall.sink \in {"ValueError", "OtherError"}) =>
        /\ lastCall.exc # "None"
        /\ \E b \in StoredBrackets :
              b.tournament_id = lastCall.tournament_id /\ FinalDecided(b)

\* the match a caller's ended call returned, << >> if it raised or has not ended
ReturnedBy(c) ==
    IF inflight[c].pc = "returned" /\ inflight[c].call # << >>
    THEN inflight[c].call[1].returned
    ELSE << >>

\* C11: when two record_match_result calls by different callers on two
\* different matches of one tournament that feed the same next match have
\* both returned successfully, whatever the interleaving of their loads and
\* saves, the stored bracket has both matches decided with the winners the
\* calls returned and the next match holds the two winners in its slots.
C11_NoLostSlotWrite ==
    \A c1 \in Callers, c2 \in Callers :
        (/\ c1 # c2
         /\ ReturnedBy(c1) # << >> /\ ReturnedBy(c2) # << >>
         /\ inflight[c1].tournament_id = inflight[c2].tournament_id
         /\ ReturnedBy(c1)[1].id # ReturnedBy(c2)[1].id
         /\ ReturnedBy(c1)[1].next_match_id # None
         /\ ReturnedBy(c1)[1].next_match_id = ReturnedBy(c2)[1].next_match_id) =>
            LET tid == inflight[c1].tournament_id
                m1 == ReturnedBy(c1)[1]
                m2 == ReturnedBy(c2)[1]
                s1 == StoredMatch(brackets, tid, m1.id)
                s2 == StoredMatch(brackets, tid, m2.id)
                t == StoredMatch(brackets, tid, m1.next_match_id)
            IN /\ Decided(s1) /\ s1.winner_id = m1.winner_id
               /\ Decided(s2) /\ s2.winner_id = m2.winner_id
               /\ {t.player1_id, t.player2_id} = {m1.winner_id, m2.winner_id}

\* create_bracket_for_tournament called in the current state
Create(tournament_id, shuffled, sinkOutcome) ==
    CreateBracketForTournament(tournaments, brackets, uuids, sinkCalls,
                               tournament_id, shuffled, sinkOutcome)
Started(tournament_id) == tournaments[tournament_id].status \in {"ACTIVE", "COMPLETED"}

\* C12: for a tournament that is ACTIVE or COMPLETED and has a stored
\* bracket, create_bracket_for_tournament returns that bracket, match for
\* match (ids, players, scores, statuses, links), and leaves the brackets
\* file, the tournaments and the status sink untouched; and a call made
\* right after a call that returned a bracket returns an equal bracket.
C12_GenerateIdempotent ==
    /\ \A b \in StoredBrackets :
          Started(b.tournament_id) =>
              \A shuffled \in Shuffles(tournaments[b.tournament_id].player_ids), sink \in SinkOutcomes :
                  LET out == Create(b.tournament_id, shuffled, sink)
                  IN /\ out.call.exc = "None"
                     /\ out.call.returned = << b >>
                     /\ out.call.returned[1].matches = b.matches
                     /\ out.brackets = brackets
                     /\ out.tournaments = tournaments
                     /\ out.uuids = uuids
                     /\ out.sinkCalls = sinkCalls
    /\ (lastCall.op = "create" /\ lastCall.returned # << >>) =>
          \A shuffled \in Shuffles(tournaments[lastCall.tournament_id].player_ids) :
              Create(lastCall.tournament_id, shuffled, "ok").call.returned = lastCall.returned

\* a second create on a started tournament just returned the stored bracket,
\* which holds a recorded result
C12_Witness ==
    /\ lastCall.op = "create" /\ lastCall.msg = "existing"
    /\ lastCall.returned = GetBracketByTournamentId(brackets, lastCall.tournament_id)
    /\ \E m \in MatchesOf(lastCall.returned[1]) : Decided(m) /\ m.score_player1 # None

\* the structure of a match list: per (round, position) the players in the
\* two slots, the status, and the (round, position) and slot the winner goes to
PositionOf(matches, match_id) ==
    IF IndexOfMatch(matches, match_id) = 0 THEN << >>
    ELSE << matches[IndexOfMatch(matches, match_id)].round_number,
            matches[IndexOfMatch(matches, match_id)].match_in_round >>
Structure(matches) ==
    { [round_number |-> matches[j].round_number,
       match_in_round |-> matches[j].match_in_round,
       player1_id |-> matches[j].player1_id,
       player2_id |-> matches[j].player2_id,
       status |-> matches[j].status,
       next |-> PositionOf(matches, matches[j].next_match_id),
       winner_to_player_slot |-> matches[j].winner_to_player_slot] : j \in 1..Len(matches) }
RosterOf(b) == tournaments[b.tournament_id].player_ids

\* C13: build does not reshuffle: the bracket one call built from the
\* tournament's ordered player list has the same structure as the bracket
\* any other call of build on that same list gives.
C13_BuildDeterministic ==
    \A b \in StoredBrackets :
        \A shuffled \in Shuffles(RosterOf(b)) :
            Structure(b.matches) =
                Structure(GenerateSingleEliminationMatches(shuffled, b.tournament_id, uuids).matches)

\* the round-1 matches of a bracket
Round1Matches(b) == { m \in MatchesOf(b) : m.round_number = 1 }

\* C14: with p the ordered player list given to build and numByes =
\* bracketSize - n, the round-1 BYE matches are exactly one per player of
\* p[0..numByes-1], in that order, and the k-th round-1 PENDING match is
\* p[numByes+2k] against p[numByes+2k+1], the earlier player in slot 1.
C14_ByesToFirstInGivenOrder ==
    \A b \in StoredBrackets :
        LET p == RosterOf(b)
            n == Len(p)
            numByes == SmallestPowerOfTwoAtLeast(n) - n
            played == (n - numByes) \div 2
        IN /\ Cardinality({ m \in Round1Matches(b) : m.status = "BYE" }) = numByes
           /\ \A i \in 1..numByes :
                 \E m \in Round1Matches(b) :
                     /\ m.match_in_round = i /\ m.status = "BYE"
                     /\ m.player1_id = p[i] /\ m.player2_id = None /\ m.winner_id = p[i]
           /\ Cardinality({ m \in Round1Matches(b) : m.status = "PENDING" }) = played
           /\ \A k \in 1..played :
                 \E m \in Round1Matches(b) :
                     /\ m.match_in_round = numByes + k /\ m.status = "PENDING"
                     /\ m.player1_id = p[numByes + 2 * k - 1]
                     /\ m.player2_id = p[numByes + 2 * k]

\* the ids of the matches stored in a brackets file
MatchIdsIn(brackets_list) ==
    UNION { { brackets_list[i].matches[j].id : j \in 1..Len(brackets_list[i].matches) } :
              i \in 1..Len(brackets_list) }
\* the stored match with the id, whichever bracket holds it
MatchById(brackets_list, match_id) ==
    CHOOSE m \in UNION { { brackets_list[i].matches[j] : j \in 1..Len(brackets_list[i].matches) } :
                           i \in 1..Len(brackets_list) } : m.id = match_id

\* C15: every stored BYE match has player1_id set and player2_id None, has
\* winner_id equal to that player, and is in round 1; a match that is BYE
\* after a step either did not exist before the step or was already BYE
\* with the same winner (so it has its winner from creation and was never
\* PENDING), and a BYE match stays BYE.
C15_ByeShape ==
    \A b \in StoredBrackets :
        \A m \in MatchesOf(b) :
            m.status = "BYE" =>
                /\ m.player1_id # None /\ m.player2_id = None
                /\ m.winner_id = m.player1_id
                /\ m.round_number = 1
C15_Step ==
    /\ \A id \in MatchIdsIn(brackets') :
          MatchById(brackets', id).status = "BYE" =>
              \/ id \notin MatchIdsIn(brackets)
              \/ /\ MatchById(brackets, id).status = "BYE"
                 /\ MatchById(brackets, id).winner_id = MatchById(brackets', id).winner_id
    /\ \A id \in MatchIdsIn(brackets) \cap MatchIdsIn(brackets') :
          MatchById(brackets, id).status = "BYE" => MatchById(brackets', id).status = "BYE"
C15_ByeDecidedAtCreation == []C15_ByeShape /\ [][C15_Step]_vars

\* a result was just recorded in a bracket that holds a BYE match
C15_Witness ==
    /\ lastCall.op = "record" /\ lastCall.exc = "None"
    /\ \E b \in StoredBrackets :
          /\ b.tournament_id = lastCall.tournament_id
          /\ \E m \in MatchesOf(b) : m.status = "BYE" /\ m.winner_id = m.player1_id
          /\ \E m \in MatchesOf(b) : Decided(m)

\* C16: in every reachable state a stored match has winner_id None and no
\* scores exactly when its status is PENDING; a PLAYER1_WIN match has
\* winner_id = player1_id and a PLAYER2_WIN match winner_id = player2_id,
\* a player in both cases, with both scores present.
C16_WinnerIffNotPending ==
    \A b \in StoredBrackets :
        \A m \in MatchesOf(b) :
            /\ (m.winner_id = None /\ m.score_player1 = None /\ m.score_player2 = None)
                  <=> m.status = "PENDING"
            /\ m.status = "PLAYER1_WIN" =>
                  /\ m.winner_id = m.player1_id /\ m.winner_id # None
                  /\ m.score_player1 # None /\ m.score_player2 # None
            /\ m.status = "PLAYER2_WIN" =>
                  /\ m.winner_id = m.player2_id /\ m.winner_id # None
                  /\ m.score_player1 # None /\ m.score_player2 # None

\* a bracket holding a PENDING match, a PLAYER1_WIN match and a PLAYER2_WIN
\* match, the last of them just recorded
C16_Witness ==
    /\ lastCall.op = "record" /\ lastCall.exc = "None"
    /\ \E b \in StoredBrackets :
          /\ b.tournament_id = lastCall.tournament_id
          /\ \E m \in MatchesOf(b) : m.status = "PENDING" /\ m.winner_id = None
          /\ \E m \in MatchesOf(b) : m.status = "PLAYER1_WIN" /\ m.winner_id = m.player1_id
          /\ \E m \in MatchesOf(b) : m.status = "PLAYER2_WIN" /\ m.winner_id = m.player2_id

\* C17: create_bracket_for_tournament on a tournament with 0 or 1 players
\* fails, with ValueError when the tournament is single elimination;
\* whatever the status sink would do, the brackets file is left as it was
\* with no bracket for the tournament, and the tournament keeps its status
\* (the sink is not called).
C17_TooFewPlayersRejected ==
    \A tid \in DOMAIN tournaments :
        Len(tournaments[tid].player_ids) < 2 =>
            \A shuffled \in Shuffles(tournaments[tid].player_ids), sink \in SinkOutcomes :
                LET out == Create(tid, shuffled, sink)
                IN /\ out.call.exc # "None"
                   /\ out.call.returned = << >>
                   /\ tournaments[tid].tournament_type = "SINGLE_ELIMINATION" =>
                         out.call.exc = "ValueError"
                   /\ out.brackets = brackets
                   /\ GetBracketByTournamentId(out.brackets, tid) = << >>
                   /\ out.tournaments = tournaments
                   /\ out.sinkCalls = sinkCalls

\* a create on a single-elimination tournament with one player was just
\* refused by the test on the number of players; nothing stored, status kept
C17_Witness ==
    /\ lastCall.op = "create" /\ lastCall.exc = "ValueError"
    /\ lastCall.msg = "at_least_2_players"
    /\ Len(tournaments[lastCall.tournament_id].player_ids) = 1
    /\ tournaments[lastCall.tournament_id].status = "REGISTRATION_OPEN"
    /\ brackets = << >>
    /\ sinkCalls = << >>

\* C18: when the next_match_id of a playable match names no match of its
\* bracket, every record_match_result that would decide it (distinct
\* scores, by the admin) raises RuntimeError to its caller and returns no
\* match, whatever the status sink would do.
C18_MissingNextMatchRaises ==
    \A ij \in DanglingLinks(brackets) :
        LET b == brackets[ij[1]]
            m == b.matches[ij[2]]
        IN Playable(m) =>
              \A s1 \in Scores, s2 \in Scores, sink \in SinkOutcomes :
                  s1 # s2 =>
                      LET out == Record(b.tournament_id, m.id, s1, s2, AdminOf(b.tournament_id), sink)
                      IN /\ out.call.exc = "RuntimeError"
                         /\ out.call.msg = "next_match_not_found"
                         /\ out.call.returned = << >>

\* a record on a match whose next match is missing just raised RuntimeError
C18_Witness ==
    /\ lastCall.op = "record" /\ lastCall.exc = "RuntimeError"
    /\ lastCall.msg = "next_match_not_found"
    /\ lastCall.returned = << >>
    /\ \E ij \in DanglingLinks(brackets) :
          brackets[ij[1]].matches[ij[2]].id = lastCall.match_id

\* the fields of a match that build fixes
Skeleton(m) ==
    [id |-> m.id, tournament_id |-> m.tournament_id, round_number |-> m.round_number,
     match_in_round |-> m.match_in_round, next_match_id |-> m.next_match_id,
     winner_to_player_slot |-> m.winner_to_player_slot]
\* a match with its result fields blanked, and with its player slots blanked
WithoutResult(m) ==
    [m EXCEPT !.score_player1 = None, !.score_player2 = None, !.status = "PENDING", !.winner_id = None]
WithoutPlayers(m) == [m EXCEPT !.player1_id = None, !.player2_id = None]

\* C19: a record_match_result step keeps every bracket's list of matches
\* position by position with the same id, round_number, match_in_round,
\* next_match_id and winner_to_player_slot (so over any sequence of calls
\* they stay as build left them); a failed call changes nothing in the
\* file; a successful call changes only scores, status and winner_id of
\* the recorded match and one player slot of the match its next_match_id
\* names.
C19_Step ==
    lastCall'.op = "record" =>
        /\ Len(brackets') = Len(brackets)
        /\ \A i \in 1..Len(brackets) :
              /\ [brackets'[i] EXCEPT !.matches = << >>] = [brackets[i] EXCEPT !.matches = << >>]
              /\ Len(brackets'[i].matches) = Len(brackets[i].matches)
              /\ \A j \in 1..Len(brackets[i].matches) :
                    LET m == brackets[i].matches[j]
                        m2 == brackets'[i].matches[j]
                    IN /\ Skeleton(m2) = Skeleton(m)
                       /\ m2 # m =>
                             /\ lastCall'.exc = "None"
                             /\ brackets[i].tournament_id = lastCall'.tournament_id
                             /\ \/ /\ m.id = lastCall'.match_id
                                   /\ WithoutResult(m2) = WithoutResult(m)
                                \/ /\ m.id = lastCall'.returned[1].next_match_id
                                   /\ WithoutPlayers(m2) = WithoutPlayers(m)
                                   /\ m2.player1_id = m.player1_id \/ m2.player2_id = m.player2_id
        /\ lastCall'.exc # "None" => brackets' = brackets
C19_RecordKeepsBracketShape == [][C19_Step]_vars

\* a record just filled the second slot of its target match, in a bracket
\* that still has the three matches build made for four players
C19_Witness ==
    /\ lastCall.op = "record" /\ lastCall.exc = "None"
    /\ lastCall.returned[1].next_match_id # None
    /\ \E b \in StoredBrackets :
          /\ b.tournament_id = lastCall.tournament_id
          /\ Len(b.matches) = 3
          /\ Cardinality({ m \in MatchesOf(b) : Decided(m) }) = 2
          /\ Playable(StoredMatch(brackets, b.tournament_id, lastCall.returned[1].next_match_id))

\* C20: once a result has been recorded in the stored bracket of a
\* tournament, no create_bracket_for_tournament call replaces that bracket
\* or drops the result: whatever the tournament's status has been set to
\* since, the call leaves the stored bracket as it is.
C20_RecordedBracketKept ==
    \A b \in StoredBrackets :
        (\E m \in MatchesOf(b) : Decided(m)) =>
            \A shuffled \in ShufflesFor(b.tournament_id) :
                LET out == Create(b.tournament_id, shuffled, "ok")
                IN /\ GetBracketByTournamentId(out.brackets, b.tournament_id) = << b >>
                   /\ \A m \in MatchesOf(b) :
                         Decided(m) => m \in MatchesOf(out.brackets[IndexOfBracket(out.brackets, b.tournament_id)])

\* C21: a record_match_result by the admin with a match id that no match of
\* the tournament's stored bracket has raises the "match not found"
\* ValueError for every score pair, and leaves every match of the bracket
\* (the whole brackets file) and the tournament as they were.
C21_UnknownMatchNotFound ==
    \A b \in StoredBrackets :
        \A mid \in RequestMatchIds \ { m.id : m \in MatchesOf(b) } :
            \A s1 \in Scores, s2 \in Scores, sink \in SinkOutcomes :
                LET out == Record(b.tournament_id, mid, s1, s2, AdminOf(b.tournament_id), sink)
                IN /\ Rejected(out, "match_not_found")
                   /\ out.sinkCalls = sinkCalls

\* a record with an unknown match id was just refused on a bracket that
\* holds a recorded result and a PENDING match
C21_Witness ==
    /\ lastCall.op = "record" /\ lastCall.exc = "ValueError"
    /\ lastCall.msg = "match_not_found"
    /\ \E b \in StoredBrackets :
          /\ b.tournament_id = lastCall.tournament_id
          /\ \E m \in MatchesOf(b) : Decided(m)
          /\ \E m \in MatchesOf(b) : m.status = "PENDING"

\* C22: for every n >= 2, round 1 of a generated bracket has exactly
\* bracketSize/2 matches: bracketSize - n of them BYE and (n - numByes)/2 of
\* them PENDING with both players set; n - numByes is even, so no round-1
\* PENDING match has a single player.
C22_Round1Counts ==
    \A b \in StoredBrackets :
        LET n == Len(RosterOf(b))
            size == SmallestPowerOfTwoAtLeast(n)
            numByes == size - n
        IN /\ n >= 2
           /\ (n - numByes) % 2 = 0
           /\ Cardinality(Round1Matches(b)) = size \div 2
           /\ Len(b.rounds_structure[1]) = size \div 2
           /\ Cardinality({ m \in Round1Matches(b) : m.status = "BYE" }) = numByes
           /\ Cardinality({ m \in Round1Matches(b) : m.status = "PENDING" }) = (n - numByes) \div 2
           /\ \A m \in Round1Matches(b) :
                 /\ m.status \in {"BYE", "PENDING"}
                 /\ m.status = "PENDING" => m.player1_id # None /\ m.player2_id # None

\* a just generated bracket for 7 players: one bye and three played matches
\* in round 1
C22_Witness ==
    /\ lastCall.op = "create" /\ lastCall.msg = "generated"
    /\ \E b \in StoredBrackets :
          /\ Len(RosterOf(b)) = 7
          /\ Cardinality({ m \in Round1Matches(b) : m.status = "BYE" }) = 1
          /\ Cardinality({ m \in Round1Matches(b) : Playable(m) }) = 3

\* the player in slot s of a match
SlotOf(m, s) == IF s = 1 THEN m.player1_id ELSE m.player2_id

\* C23: in a generated bracket winner_to_player_slot is set, to 1 or 2,
\* exactly on the matches whose next_match_id is set; a linked match at
\* position q of its round feeds the match at position (q+1)/2 of the next
\* round, into slot 1 when it is the first of its pair and slot 2 when it
\* is the second, and that slot of the new match is None at build time.
C23_WinnerSlotByPairPosition ==
    \A b \in StoredBrackets :
        \A m \in MatchesOf(b) :
            /\ (m.winner_to_player_slot # None) <=> (m.next_match_id # None)
            /\ m.next_match_id # None =>
                  /\ m.winner_to_player_slot \in {1, 2}
                  /\ \E t \in MatchesOf(b) :
                        /\ t.id = m.next_match_id
                        /\ t.round_number = m.round_number + 1
                        /\ t.match_in_round = (m.match_in_round + 1) \div 2
                        /\ m.winner_to_player_slot = (IF m.match_in_round % 2 = 1 THEN 1 ELSE 2)
                        /\ SlotOf(t, m.winner_to_player_slot) = None

\* a just generated bracket for 4 players: round-1 match 1 feeds slot 1 and
\* round-1 match 2 feeds slot 2 of the final, whose two slots are None
C23_Witness ==
    /\ lastCall.op = "create" /\ lastCall.msg = "generated"
    /\ \E b \in StoredBrackets :
          /\ Len(RosterOf(b)) = 4
          /\ \E m1 \in Round1Matches(b), m2 \in Round1Matches(b), f \in MatchesOf(b) :
                /\ m1.match_in_round = 1 /\ m1.next_match_id = f.id /\ m1.winner_to_player_slot = 1
                /\ m2.match_in_round = 2 /\ m2.next_match_id = f.id /\ m2.winner_to_player_slot = 2
                /\ f.round_number = 2 /\ f.next_match_id = None
                /\ f.player1_id = None /\ f.player2_id = None

\* the matches of round r, the round-1 matches feeding slot s of match t, and
\* the bye players of a bracket
RoundMatches(b, r) == { m \in MatchesOf(b) : m.round_number = r }
Feeders(b, t, s) ==
    { m \in MatchesOf(b) : m.next_match_id = t.id /\ m.winner_to_player_slot = s }
ByePlayers(b) == { m.winner_id : m \in { x \in Round1Matches(b) : x.status = "BYE" } }

\* C24: in a generated bracket every bye winner sits in exactly one
\* round-2 player slot; each slot of each round-2 match has exactly one
\* source: it holds a bye player and no match feeds it, or it is None and
\* exactly one match, a round-1 PENDING match, feeds it; matches of round 3
\* and later have both slots None.
C24_Round2SlotsSourcedOnce ==
    \A b \in StoredBrackets :
        /\ \A p \in ByePlayers(b) :
              Cardinality({ ts \in RoundMatches(b, 2) \X {1, 2} : SlotOf(ts[1], ts[2]) = p }) = 1
        /\ \A t \in RoundMatches(b, 2) : \A s \in {1, 2} :
              \/ /\ SlotOf(t, s) \in ByePlayers(b)
                 /\ Feeders(b, t, s) = {}
              \/ /\ SlotOf(t, s) = None
                 /\ Cardinality(Feeders(b, t, s)) = 1
                 /\ \A m \in Feeders(b, t, s) : m.round_number = 1 /\ m.status = "PENDING"
        /\ \A t \in MatchesOf(b) :
              t.round_number >= 3 => t.player1_id = None /\ t.player2_id = None

\* a just generated bracket for 5 players: a round-2 match with two bye
\* players, a round-2 match with a bye player and a fed slot, a round 3
C24_Witness ==
    /\ lastCall.op = "create" /\ lastCall.msg = "generated"
    /\ \E b \in StoredBrackets :
          /\ Cardinality(ByePlayers(b)) = 3
          /\ \E t \in RoundMatches(b, 2) : t.player1_id \in ByePlayers(b) /\ t.player2_id \in ByePlayers(b)
          /\ \E t \in RoundMatches(b, 2) : t.player1_id \in ByePlayers(b) /\ t.player2_id = None
          /\ RoundMatches(b, 3) # {}

\* C25: no player slot is written twice. In every state at most one match
\* feeds a given slot of a given match, no match feeds a round-2 slot that
\* holds a bye player, a filled slot that is fed holds the winner of its
\* decided feeder, and every admin record that decides a match with a next
\* match finds the slot it writes still None; in every step a slot that is
\* not None keeps its player.
C25_FeedersUnique ==
    \A b \in StoredBrackets :
        /\ \A t \in MatchesOf(b) : \A s \in {1, 2} :
              /\ Cardinality(Feeders(b, t, s)) <= 1
              /\ (t.round_number = 2 /\ SlotOf(t, s) \in ByePlayers(b)) => Feeders(b, t, s) = {}
              /\ (SlotOf(t, s) # None /\ Feeders(b, t, s) # {}) =>
                    \A f \in Feeders(b, t, s) : Decided(f) /\ f.winner_id = SlotOf(t, s)
        /\ \A m \in { x \in MatchesOf(b) : Playable(x) /\ x.next_match_id # None } :
              \A s1 \in Scores, s2 \in Scores :
                  s1 # s2 =>
                      /\ Record(b.tournament_id, m.id, s1, s2, AdminOf(b.tournament_id), "ok").call.exc = "None"
                      /\ SlotOf(StoredMatch(brackets, b.tournament_id, m.next_match_id),
                                m.winner_to_player_slot) = None
C25_SlotKept ==
    \A i \in 1..Len(brackets) : \A j \in 1..Len(brackets[i].matches) : \A s \in {1, 2} :
        SlotOf(brackets[i].matches[j], s) # None =>
            /\ i <= Len(brackets') /\ j <= Len(brackets'[i].matches)
            /\ brackets'[i].matches[j].id = brackets[i].matches[j].id
            /\ SlotOf(brackets'[i].matches[j], s) = SlotOf(brackets[i].matches[j], s)
C26_AtMostOneSucceeds ==
    \A c1 \in Callers, c2 \in Callers :
        (/\ c1 # c2
         /\ ReturnedBy(c1) # << >> /\ ReturnedBy(c2) # << >>
         /\ inflight[c1].tournament_id = inflight[c2].tournament_id) =>
            ReturnedBy(c1)[1].id # ReturnedBy(c2)[1].id

\* the calls the status sink received for a tournament
SinkCallsFor(tournament_id) ==
    { i \in 1..Len(sinkCalls) : sinkCalls[i].tournament_id = tournament_id }

BracketsOf(brackets_list, tournament_id) ==
    { i \in 1..Len(brackets_list) : brackets_list[i].tournament_id = tournament_id }
OtherBrackets(brackets_list, tournament_id) ==
    { brackets_list[i] : i \in (1..Len(brackets_list)) \ BracketsOf(brackets_list, tournament_id) }

C29_RoundsInSync ==
    \A b \in StoredBrackets :
        /\ 1..Len(b.rounds_structure) = { m.round_number : m \in MatchesOf(b) }
        /\ \A r \in 1..Len(b.rounds_structure) :
              LET ids == b.rounds_structure[r]
              IN /\ { ids[k] : k \in 1..Len(ids) } = { m.id : m \in RoundMatches(b, r) }
                 /\ Len(ids) = Cardinality(RoundMatches(b, r))
                 /\ \A k \in 1..Len(ids) :
                       \E m \in RoundMatches(b, r) : m.id = ids[k] /\ m.match_in_round = k
        /\ \A m1 \in MatchesOf(b), m2 \in MatchesOf(b) :
              (m1.round_number = m2.round_number /\ m1.match_in_round = m2.match_in_round) => m1 = m2
C29_RecordKeepsRounds ==
    lastCall'.op = "record" =>
        /\ Len(brackets') = Len(brackets)
        /\ \A i \in 1..Len(brackets) : brackets'[i].rounds_structure = brackets[i].rounds_structure
C29_RoundsStructureInSync == []C29_RoundsInSync /\ [][C29_RecordKeepsRounds]_vars

\* a record just succeeded on a bracket of two rounds whose first round
\* lists a BYE match and a played match, in that order
C29_Witness ==
    /\ lastCall.op = "record" /\ lastCall.exc = "None"
    /\ \E b \in StoredBrackets :
          /\ b.tournament_id = lastCall.tournament_id
          /\ Len(b.rounds_structure) = 2
          /\ Len(b.rounds_structure[1]) = 2
          /\ StoredMatch(brackets, b.tournament_id, b.rounds_structure[1][1]).status = "BYE"
          /\ b.rounds_structure[1][2] = lastCall.match_id
          /\ Decided(LocatedMatch)

\* C30: for every roster of n >= 2 players a single elimination build
\* ends by returning a bracket: a create call that gets past the checks of
\* the tournament (known, not yet started with a bracket, single
\* elimination, at least 2 players) returns a bracket whose last round has
\* exactly one match, the final, which no match follows.
C30_BuildReturnsBracket ==
    (/\ lastCall.op = "create"
     /\ lastCall.tournament_id \in DOMAIN tournaments
     /\ lastCall.msg \notin {"existing", "no_players", "tournament_type", "at_least_2_players"}) =>
        /\ lastCall.exc = "None"
        /\ lastCall.returned # << >>
        /\ LET b == lastCall.returned[1]
           IN /\ Cardinality(RoundMatches(b, LastRound(b))) = 1
              /\ \A m \in RoundMatches(b, LastRound(b)) : m.next_match_id = None

\* C31: a record_match_result call that raises, whoever calls it with
\* whatever tournament id, match id and scores and whatever the status sink
\* does (tournament, bracket or match not found, not the admin, match not
\* PENDING or without two players, equal scores, RuntimeError during
\* advancement), leaves the brackets file and the tournaments, their
\* statuses included, exactly as they were.
C31_FailedRecordChangesNothing ==
    \A tid \in RequestTournamentIds, mid \in RequestMatchIds :
        \A s1 \in Scores, s2 \in Scores, u \in Users, sink \in SinkOutcomes :
            LET out == Record(tid, mid, s1, s2, u, sink)
            IN out.call.exc # "None" =>
                  /\ out.brackets = brackets
                  /\ out.tournaments = tournaments
                  /\ out.call.returned = << >>

\* a record just raised RuntimeError during advancement on a bracket that
\* holds an earlier decision, in an ACTIVE tournament
C31_Witness ==
    /\ lastCall.op = "record" /\ lastCall.exc = "RuntimeError"
    /\ tournaments[lastCall.tournament_id].status = "ACTIVE"
    /\ \E b \in StoredBrackets :
          /\ b.tournament_id = lastCall.tournament_id
          /\ \E m \in MatchesOf(b) : Decided(m)
          /\ \E m \in MatchesOf(b) : m.id = lastCall.match_id /\ m.status = "PENDING" /\ m.winner_id = None

\* C32: in every state, those between the status sink's call and the save
\* of a record_match_result call and those a failed save leaves included,
\* a tournament whose status the engine has set to COMPLETED has a stored
\* bracket whose final is decided, with a winner.
C32_CompletedOnlyWithFinalDecided ==
    \A tid \in DOMAIN tournaments :
        (/\ tournaments[tid].status = "COMPLETED"
         /\ \E i \in 1..Len(sinkCalls) : sinkCalls[i] = SinkCall(tid, "COMPLETED", "ok")) =>
            \E b \in StoredBrackets :
                /\ b.tournament_id = tid
                /\ \E m \in MatchesOf(b) :
                      m.round_number = LastRound(b) /\ Decided(m) /\ m.winner_id # None

\* the matches of a bracket whose next_match_id names match t
FeedersOf(b, t) == { m \in MatchesOf(b) : m.next_match_id = t.id }

\* C33: in every state a decided match (PLAYER1_WIN or PLAYER2_WIN) has
\* both player slots filled and every match whose next_match_id names it
\* is itself decided, its winner in the slot it feeds; so a decided final
\* has every match on every path to it decided.
C33_DecidedAfterFeeders ==
    \A b \in StoredBrackets :
        \A t \in MatchesOf(b) :
            Decided(t) =>
                /\ t.player1_id # None /\ t.player2_id # None
                /\ \A m \in FeedersOf(b, t) :
                      /\ Decided(m)
                      /\ SlotOf(t, m.winner_to_player_slot) = m.winner_id

\* the final of a four-player bracket was just decided, after both matches
\* that feed it
C33_Witness ==
    /\ lastCall.op = "record" /\ lastCall.exc = "None"
    /\ lastCall.returned # << >>
    /\ lastCall.returned[1].round_number = 2
    /\ \E b \in StoredBrackets :
          /\ b.tournament_id = lastCall.tournament_id
          /\ Cardinality(FeedersOf(b, LocatedMatch)) = 2
          /\ Decided(LocatedMatch)
          /\ \A m \in FeedersOf(b, LocatedMatch) : Decided(m)

\* C34: while a stored bracket's final is undecided, some PENDING match of
\* the bracket has both player slots filled; and when the admin keeps
\* recording playable matches, every stored bracket leads to a state where
\* its final is decided and the tournament is COMPLETED.
C34_SomeMatchPlayable ==
    \A b \in StoredBrackets :
        ~FinalDecided(b) => \E m \in MatchesOf(b) : Playable(m)
C34_AllFinalsDecided ==
    /\ brackets # << >>
    /\ \A b \in StoredBrackets :
          FinalDecided(b) /\ tournaments[b.tournament_id].status = "COMPLETED"
C34_FinalEventuallyDecided ==
    /\ []C34_SomeMatchPlayable
    /\ (brackets # << >>) ~> C34_AllFinalsDecided

\* the final of a three-player bracket was just decided: the played
\* round-1 match and the final are decided, the sink got COMPLETED and the
\* tournament is COMPLETED
C34_Witness ==
    /\ lastCall.op = "record" /\ lastCall.exc = "None" /\ lastCall.sink = "ok"
    /\ C34_AllFinalsDecided
    /\ \E b \in StoredBrackets :
          /\ Len(b.matches) = 3
          /\ \E m \in MatchesOf(b) : m.status = "BYE"
          /\ \A m \in MatchesOf(b) : m.status # "BYE" => Decided(m)
    /\ CompletedSignals(lastCall.tournament_id) = 1

\* the players in the slots of a match, and the loser of a decided match
PlayersIn(m) == {m.player1_id, m.player2_id} \ {None}
LoserOf(m) == IF m.winner_id = m.player1_id THEN m.player2_id ELSE m.player1_id

\* C35: in every state every filled player slot and every winner_id holds
\* a player of the tournament's roster; the two slots of a match never
\* hold the same player; no player is in the slots of two different
\* matches of one round that are not BYE matches; and the loser of a
\* decided match is in no slot of a later round.
C35_PlayersWellPlaced ==
    \A b \in StoredBrackets :
        /\ \A m \in MatchesOf(b) :
              /\ PlayersIn(m) \subseteq InputPlayers(b)
              /\ m.winner_id # None => m.winner_id \in InputPlayers(b)
              /\ m.player1_id # None => m.player1_id # m.player2_id
              /\ Decided(m) =>
                    \A t \in MatchesOf(b) :
                        t.round_number > m.round_number => LoserOf(m) \notin PlayersIn(t)
        /\ \A m1 \in MatchesOf(b), m2 \in MatchesOf(b) :
              (/\ m1 # m2
               /\ m1.round_number = m2.round_number
               /\ m1.status # "BYE" /\ m2.status # "BYE") =>
                  PlayersIn(m1) \cap PlayersIn(m2) = {}

\* a round-1 match of a four-player bracket was just decided: its winner is
\* in the final, its loser is in no other match, the other round-1 match is
\* still to be played
C35_Witness ==
    /\ lastCall.op = "record" /\ lastCall.exc = "None"
    /\ lastCall.returned # << >>
    /\ lastCall.returned[1].round_number = 1
    /\ \E b \in StoredBrackets :
          /\ b.tournament_id = lastCall.tournament_id
          /\ Cardinality(InputPlayers(b)) = 4
          /\ \E t \in RoundMatches(b, 2) :
                /\ PlayersIn(t) = {lastCall.returned[1].winner_id}
                /\ LoserOf(LocatedMatch) \notin PlayersIn(t)
          /\ Cardinality({ m \in RoundMatches(b, 1) : Playable(m) }) = 1

\* C36: when two record_match_result calls by different callers on matches
\* of two different tournaments have both returned a decided match,
\* whatever the interleaving of their loads and saves of the brackets file,
\* the file holds both decisions: each of the two matches is stored decided
\* with the winner its call returned.
C36_BothTournamentsKept ==
    \A c1 \in Callers, c2 \in Callers :
        (/\ c1 # c2
         /\ ReturnedBy(c1) # << >> /\ ReturnedBy(c2) # << >>
         /\ inflight[c1].tournament_id # inflight[c2].tournament_id) =>
            \A c \in {c1, c2} :
                LET m == ReturnedBy(c)[1]
                    i == IndexOfBracket(brackets, inflight[c].tournament_id)
                IN /\ i # 0
                   /\ \E s \in MatchesOf(brackets[i]) :
                         s.id = m.id /\ Decided(s) /\ s.winner_id = m.winner_id

=============================================================================
